---- MODULE Spec2Model ----
(***************************************************************************)
(* A model of the CogniQuery retrieval-augmented pipeline: the chunker,    *)
(* the corpus and single-file knowledge-base builds, and multi-query       *)
(* retrieval.  The repository holds two variants of the pipeline,          *)
(* src/logic.py ("root") and src/backend/logic.py ("backend"); where they  *)
(* differ the model carries a variant and follows each.                    *)
(***************************************************************************)
EXTENDS Integers, Sequences, FiniteSets, TLC

VARIABLES
    \* chunk_text (one call, loop position included)
    c_pc, text, chunk_size, chunk_overlap, start, chunks,
    \* which logic.py runs: "root" (src/logic.py) or "backend" (src/backend/logic.py)
    variant,
    \* process_query_with_gemini (one call)
    q_pc, kb_chunks, query, expansion, generated_questions, all_queries,
    all_embeddings, emb_i, searched, retrieved_indices, retrieved_order,
    retrieved_chunks, q_result,
    \* both knowledge-base builds
    all_chunks, embed_status, index_built, index_ntotal, build_error,
    \* process_single_file_and_query[_rag] (one call)
    s_pc, file_ext, extractors, try_order, try_i, tried, full_text, last_error,
    query_called,
    \* build_kb: load_and_chunk_documents, create_embeddings_and_save
    b_pc, dir_exists, files, file_i, disk_embeddings, disk_chunks, create_result,
    \* the HTTP endpoint of a query request: the response it sends
    response,
    \* the server of the persistent knowledge base: its start-up load, the
    \* knowledge base it holds, the number of loads made, and its query requests
    p_pc, prebuilt_index, prebuilt_chunks, loads, r_pc, r_index, r_chunks, r_response,
    \* the upload endpoint: the files of the uploads folder and, for each upload
    \* request, its position, its temporary file name, the bytes its ingestion
    \* read, whether its file was taken from it, and its response
    uploads, u_pc, u_name, u_read, u_lost, u_response

chunkVars == <<c_pc, text, chunk_size, chunk_overlap, start, chunks>>

queryVars == <<q_pc, kb_chunks, query, expansion, generated_questions, all_queries,
               all_embeddings, emb_i, searched, retrieved_indices, retrieved_order,
               retrieved_chunks, q_result>>

sharedBuildVars == <<all_chunks, embed_status, index_built, index_ntotal, build_error>>

singleVars == <<s_pc, file_ext, extractors, try_order, try_i, tried, full_text,
                last_error, query_called>>

corpusVars == <<b_pc, dir_exists, files, file_i, disk_embeddings, disk_chunks,
                create_result>>

buildVars == <<sharedBuildVars, singleVars, corpusVars>>

\* the web applications: src/api/index.py, src/app.py, src/backend/app.py
persistVars == <<p_pc, prebuilt_index, prebuilt_chunks, loads, r_pc, r_index, r_chunks,
                 r_response>>

uploadVars == <<uploads, u_pc, u_name, u_read, u_lost, u_response>>

appVars == <<response, persistVars, uploadVars>>

vars == <<chunkVars, variant, appVars, queryVars, buildVars>>

(***************************************************************************)
(* Bounds of the model and constants of the program.                       *)
(***************************************************************************)
MaxTextLen == 6
MaxChunkSize == 3

DEFAULT_CHUNK_SIZE == 1000
DEFAULT_CHUNK_OVERLAP == 200
\* the 2000-character scenario: twice the default chunk size
ScenarioLen == 2 * DEFAULT_CHUNK_SIZE

Alphabet == {"a", "b"}

Min(a, b) == IF a < b THEN a ELSE b
Max(a, b) == IF a > b THEN a ELSE b

\* ceil(a / b) for a >= 0, b > 0
CeilDiv(a, b) == (a + b - 1) \div b

\* All sequences over S of length 0..n
SeqsUpTo(S, n) == UNION {[1..m -> S] : m \in 0..n}

\* A text of n characters in which neighbouring windows differ
PatternText(n) == [i \in 1..n |-> IF (i % 7) \in {0, 2, 3} THEN "a" ELSE "b"]

(***************************************************************************)
(* Python's s[a:b] on a sequence: a negative bound counts from the end,    *)
(* and both bounds are clamped to 0..len(s).                               *)
(***************************************************************************)
PyIndex(i, n) == IF i < 0 THEN Max(i + n, 0) ELSE Min(i, n)

PySlice(s, a, b) == SubSeq(s, PyIndex(a, Len(s)) + 1, PyIndex(b, Len(s)))

(***************************************************************************)
(* chunk_text: `start += chunk_size - chunk_overlap`, and the loop.        *)
(***************************************************************************)
NextStartNoOverlap(st, size, overlap) == st + size

NextStart(st, size, overlap) == st + size - overlap

RECURSIVE ChunkLoop(_, _, _, _, _)
ChunkLoop(t, size, overlap, st, acc) ==
    IF st < Len(t)
    THEN ChunkLoop(t, size, overlap, NextStart(st, size, overlap),
                   Append(acc, PySlice(t, st, st + size)))
    ELSE acc

\* chunk_text(text, chunk_size, chunk_overlap), for chunk_overlap < chunk_size
chunk_text(t, size, overlap) ==
    IF Len(t) <= size THEN <<t>> ELSE ChunkLoop(t, size, overlap, 0, <<>>)

(***************************************************************************)
(* The values the variables of a part hold while another part runs.        *)
(***************************************************************************)
\* generate_hypothetical_questions has not been called
NoExpansion == [kind |-> "none", text |-> <<>>]

ChunkIdle ==
    /\ c_pc = "idle"
    /\ text = <<>>
    /\ chunk_size = DEFAULT_CHUNK_SIZE
    /\ chunk_overlap = DEFAULT_CHUNK_OVERLAP
    /\ start = 0
    /\ chunks = <<>>

QueryIdle ==
    /\ q_pc = "idle"
    /\ kb_chunks = <<>>
    /\ query = <<>>
    /\ expansion = NoExpansion
    /\ generated_questions = <<>>
    /\ all_queries = <<>>
    /\ all_embeddings = <<>>
    /\ emb_i = 0
    /\ searched = <<>>
    /\ retrieved_indices = <<>>
    /\ retrieved_order = <<>>
    /\ retrieved_chunks = <<>>
    /\ q_result = "none"

\* Python's None, where a text is expected
None == <<"None">>

\* No file of the knowledge base on disk
NoFile == [build |-> "none", n |-> 0]

SharedBuildIdle ==
    /\ all_chunks = <<>>
    /\ embed_status = "not called"
    /\ index_built = FALSE
    /\ index_ntotal = 0
    /\ build_error = "none"

SingleIdle ==
    /\ s_pc = "idle"
    /\ file_ext = "other"
    /\ extractors = <<>>
    /\ try_order = <<>>
    /\ try_i = 0
    /\ tried = <<>>
    /\ full_text = None
    /\ last_error = "None"
    /\ query_called = FALSE

CorpusIdle ==
    /\ b_pc = "idle"
    /\ dir_exists = FALSE
    /\ files = <<>>
    /\ file_i = 0
    /\ disk_embeddings = NoFile
    /\ disk_chunks = NoFile
    /\ create_result = "none"

BuildIdle == SharedBuildIdle /\ SingleIdle /\ CorpusIdle

\* No response has been sent
NoResponse == [status |-> 0, body |-> "none"]

MaxRequests == 2

\* The query requests a server receives
Requests == 1..MaxRequests

PersistIdle ==
    /\ p_pc = "idle"
    /\ prebuilt_index = NoFile
    /\ prebuilt_chunks = NoFile
    /\ loads = 0
    /\ r_pc = [r \in Requests |-> "idle"]
    /\ r_index = [r \in Requests |-> NoFile]
    /\ r_chunks = [r \in Requests |-> NoFile]
    /\ r_response = [r \in Requests |-> NoResponse]

MaxUploads == 2

\* The upload requests a server receives
Uploads == 1..MaxUploads

\* secure_filename(file.filename) of an upload: a name, or "" when nothing of
\* the name is left
FileNames == {"x.txt", "y.pdf"}

UploadIdle ==
    /\ uploads = [n \in FileNames |-> 0]
    /\ u_pc = [u \in Uploads |-> "idle"]
    /\ u_name = [u \in Uploads |-> "none"]
    /\ u_read = [u \in Uploads |-> 0]
    /\ u_lost = [u \in Uploads |-> FALSE]
    /\ u_response = [u \in Uploads |-> NoResponse]

AppIdle ==
    /\ response = NoResponse
    /\ PersistIdle
    /\ UploadIdle

(***************************************************************************)
(* One call of chunk_text, a loop iteration at a time.                     *)
(***************************************************************************)
ChunkInputs ==
    {<<t, s, o>> : t \in SeqsUpTo(Alphabet, MaxTextLen),
                   s \in 1..MaxChunkSize, o \in 0..(MaxChunkSize - 1)}

ChunkInit ==
    /\ \E in \in ChunkInputs \cup
                 {<<PatternText(ScenarioLen), DEFAULT_CHUNK_SIZE, DEFAULT_CHUNK_OVERLAP>>} :
          /\ in[3] < in[2]
          /\ text = in[1]
          /\ chunk_size = in[2]
          /\ chunk_overlap = in[3]
    /\ c_pc = "call"
    /\ start = 0
    /\ chunks = <<>>
    /\ variant = "backend"
    /\ QueryIdle
    /\ BuildIdle
    /\ AppIdle

\* if len(text) <= chunk_size: return [text]
ChunkShort ==
    /\ c_pc = "call"
    /\ Len(text) <= chunk_size
    /\ chunks' = <<text>>
    /\ c_pc' = "done"
    /\ UNCHANGED <<text, chunk_size, chunk_overlap, start, variant, appVars, queryVars, buildVars>>

\* chunks = []; start = 0
ChunkEnter ==
    /\ c_pc = "call"
    /\ Len(text) > chunk_size
    /\ chunks' = <<>>
    /\ start' = 0
    /\ c_pc' = "loop"
    /\ UNCHANGED <<text, chunk_size, chunk_overlap, variant, appVars, queryVars, buildVars>>

\* while start < len(text): end = start + chunk_size; chunks.append(text[start:end]); start += ...
ChunkIterate ==
    /\ c_pc = "loop"
    /\ start < Len(text)
    /\ chunks' = Append(chunks, PySlice(text, start, start + chunk_size))
    /\ start' = NextStart(start, chunk_size, chunk_overlap)
    /\ UNCHANGED <<c_pc, text, chunk_size, chunk_overlap, variant, appVars, queryVars, buildVars>>

\* return chunks
ChunkReturn ==
    /\ c_pc = "loop"
    /\ ~(start < Len(text))
    /\ c_pc' = "done"
    /\ UNCHANGED <<text, chunk_size, chunk_overlap, start, chunks, variant, appVars, queryVars, buildVars>>

ChunkNext == ChunkShort \/ ChunkEnter \/ ChunkIterate \/ ChunkReturn

SpecChunk == ChunkInit /\ [][ChunkNext]_vars

(***************************************************************************)
(* Chunker claims.                                                         *)
(***************************************************************************)
\* The windows text[i*step : min(i*step + size, L)] for i = 0, 1, ... while i*step < L
RefWindows(t, size, overlap) ==
    LET step == size - overlap
        L == Len(t)
    IN  IF L <= size
        THEN <<t>>
        ELSE [i \in 1..CeilDiv(L, step) |->
                 SubSeq(t, (i - 1) * step + 1, Min((i - 1) * step + size, L))]

IsScenario ==
    /\ Len(text) = ScenarioLen
    /\ chunk_size = DEFAULT_CHUNK_SIZE
    /\ chunk_overlap = DEFAULT_CHUNK_OVERLAP

\* C1: for overlap < size, chunk_text returns [text] when L <= size and otherwise
\* exactly the windows text[i*step : min(i*step+size, L)], i*step < L, in order, none
\* reading past the end; the 2000-character text with size 1000 and overlap 200 gives
\* the three chunks [0:1000], [800:1800], [1600:2000].
C1_ChunksAreReferenceWindows ==
    c_pc = "done" =>
        /\ chunks = RefWindows(text, chunk_size, chunk_overlap)
        /\ chunk_text(text, chunk_size, chunk_overlap) = chunks
        /\ \A i \in 1..Len(chunks) : Len(chunks[i]) <= chunk_size
        /\ IsScenario =>
              chunks = <<SubSeq(text, 1, 1000), SubSeq(text, 801, 1800),
                         SubSeq(text, 1601, 2000)>>

\* A finished call on a long text whose last window was clamped at the end of the text
C1_Witness ==
    /\ c_pc = "done"
    /\ Len(text) > chunk_size
    /\ chunk_overlap > 0
    /\ Len(chunks) >= 3
    /\ Len(chunks[Len(chunks)]) < chunk_size

\* C2 as stated: for L > size the number of chunks is ceil((L - overlap) / (size - overlap)).
C2_CountAsClaimed ==
    (c_pc = "done" /\ Len(text) > chunk_size) =>
        Len(chunks) = CeilDiv(Len(text) - chunk_overlap, chunk_size - chunk_overlap)

\* C2 amended: for L > size the number of chunks is ceil(L / (size - overlap)), which is
\* never less than ceil((L - overlap) / (size - overlap)).
C2_CountIsCeilOfLengthOverStep ==
    (c_pc = "done" /\ Len(text) > chunk_size) =>
        /\ Len(chunks) = CeilDiv(Len(text), chunk_size - chunk_overlap)
        /\ Len(chunks) >= CeilDiv(Len(text) - chunk_overlap, chunk_size - chunk_overlap)

\* A finished call that returned one chunk more than the claimed count
C2_Witness ==
    /\ c_pc = "done"
    /\ Len(text) > chunk_size
    /\ Len(chunks) = 1 + CeilDiv(Len(text) - chunk_overlap, chunk_size - chunk_overlap)

(***************************************************************************)
(* generate_hypothetical_questions: the parse of the model's response.     *)
(* A text is a sequence of characters; "\n" is the newline.                *)
(***************************************************************************)
Whitespace == {" ", "\n"}

RECURSIVE LStrip(_)
LStrip(s) == IF s # <<>> /\ Head(s) \in Whitespace THEN LStrip(Tail(s)) ELSE s

RECURSIVE RStrip(_)
RStrip(s) ==
    IF s # <<>> /\ s[Len(s)] \in Whitespace THEN RStrip(SubSeq(s, 1, Len(s) - 1)) ELSE s

\* str.strip()
Strip(s) == RStrip(LStrip(s))

\* the least i with s[i..i+Len(sep)-1] = sep, or 0
Find(s, sep) ==
    LET hits == {i \in 1..(Len(s) - Len(sep) + 1) : SubSeq(s, i, i + Len(sep) - 1) = sep}
    IN  IF hits = {} THEN 0 ELSE CHOOSE i \in hits : \A j \in hits : i <= j

\* sep in s
Contains(s, sep) == Find(s, sep) # 0

\* s.split(sep): always at least one part
RECURSIVE Split(_, _)
Split(s, sep) ==
    LET i == Find(s, sep)
    IN  IF i = 0
        THEN <<s>>
        ELSE <<SubSeq(s, 1, i - 1)>> \o Split(SubSeq(s, i + Len(sep), Len(s)), sep)

\* s.split(sep, 1): at most two parts
SplitOnce(s, sep) ==
    LET i == Find(s, sep)
    IN  IF i = 0
        THEN <<s>>
        ELSE <<SubSeq(s, 1, i - 1), SubSeq(s, i + Len(sep), Len(s))>>

DotSpace == <<".", " ">>

\* [line.strip().split(". ", 1)[1] for line in lines if ". " in line]:
\* ok is FALSE when some [1] raises IndexError
RECURSIVE ParseLines(_)
ParseLines(lines) ==
    IF lines = <<>>
    THEN [ok |-> TRUE, questions |-> <<>>]
    ELSE LET line == Head(lines)
             rest == ParseLines(Tail(lines))
             parts == SplitOnce(Strip(line), DotSpace)
         IN  IF ~Contains(line, DotSpace)
             THEN rest
             ELSE IF Len(parts) < 2
                  THEN [ok |-> FALSE, questions |-> <<>>]
                  ELSE [ok |-> rest.ok,
                        questions |-> IF rest.ok THEN <<parts[2]>> \o rest.questions
                                      ELSE <<>>]

\* The outcome of model.generate_content(prompt) and of response.text:
\* kind "raise" (service error, timeout, blocked response) or kind "text"
ExpandRaises(outcome) ==
    IF outcome.kind = "raise"
    THEN [raised |-> TRUE, questions |-> <<>>]
    ELSE LET parsed == ParseLines(Split(Strip(outcome.text), <<"\n">>))
         IN  [raised |-> ~parsed.ok, questions |-> <<>>]

\* generate_hypothetical_questions(query): every exception of the try block returns []
generate_hypothetical_questions(outcome) ==
    IF outcome.kind = "raise"
    THEN [raised |-> FALSE, questions |-> <<>>]
    ELSE LET parsed == ParseLines(Split(Strip(outcome.text), <<"\n">>))
         IN  [raised |-> FALSE,
              questions |-> IF parsed.ok THEN parsed.questions ELSE <<>>]

\* Responses of the generative model
ResponseTexts ==
    { <<"1", ".", " ", "x", "\n", "2", ".", " ", "y", "\n", "3", ".", " ", "z">>,
      <<"\n", "1", ".", " ", "x", "\n", "\n", "2", ".", " ", "y", "\n">>,
      <<"x", ".", " ", "y">>,
      <<"x", "y">>,
      <<"1", ".", " ", "x", "\n", "y", ".", " ", "\n", "2", ".", " ", "z">>,
      <<>> }

ExpansionOutcomes ==
    {[kind |-> "raise", text |-> <<>>]} \cup {[kind |-> "text", text |-> t] : t \in ResponseTexts}

(***************************************************************************)
(* process_query_with_gemini(query, index, chunks).                        *)
(***************************************************************************)
MaxKbChunks == 4

K_ROOT == 3
K_BACKEND == 5

\* k = 3 (src/logic.py) or k = 5 (src/backend/logic.py)
TopK(v) == IF v = "root" THEN K_ROOT ELSE K_BACKEND

Range(s) == {s[i] : i \in 1..Len(s)}

NoDuplicates(s) == \A i, j \in 1..Len(s) : s[i] = s[j] => i = j

\* The sequences of m distinct members of S
InjectiveSeqs(S, m) == {s \in [1..m -> S] : NoDuplicates(s)}

\* genai.embed_content(content=texts): one embedding per text
Embed(texts) == [i \in 1..Len(texts) |-> <<"embedding", texts[i]>>]

\* index.search(x, k)[1][0] on a flat L2 index of n vectors: the labels of the
\* min(k, n) nearest vectors, nearest first, the remaining slots filled with -1.
\* Which vectors are nearest depends on the embeddings: any ranking can occur.
IndexSearch(n, k) ==
    LET m == Min(k, n)
    IN  {[i \in 1..k |-> IF i <= m THEN s[i] ELSE -1] : s \in InjectiveSeqs(0..(n - 1), m)}

\* retrieved_indices as a list would grow on every add
ListAppend(c, i) == Append(c, i)

\* retrieved_indices.add(i): the set is held as the sequence of its distinct
\* members (the order in which the set is iterated is chosen in QueryCollect)
SetAdd(c, i) == IF i \in Range(c) THEN c ELSE Append(c, i)

\* for i in indices[0]: retrieved_indices.add(i)
RECURSIVE AddAll(_, _)
AddAll(c, labels) ==
    IF labels = <<>> THEN c ELSE AddAll(SetAdd(c, Head(labels)), Tail(labels))

\* The orders in which `for i in retrieved_indices` may visit the members of the
\* set: a Python set is unordered, its iteration order is not defined by the language
IterationOrders(c) ==
    {[j \in 1..Len(c) |-> c[p[j]]] : p \in Permutations(1..Len(c))}

\* The 0-based position that list[i] reads: a negative index counts from the end
PyPosition(i, n) == IF i < 0 THEN i + n ELSE i

\* chunks[i]
PyItem(list, i) == list[PyPosition(i, Len(list)) + 1]

\* Knowledge bases: n chunks, all different or all with the same text
KbChunks(n, same) == [i \in 1..n |-> IF same THEN <<"a">> ELSE [j \in 1..i |-> "a"]]

QueryInit ==
    /\ ChunkIdle
    /\ BuildIdle
    /\ AppIdle
    /\ variant \in {"root", "backend"}
    /\ \E n \in 1..MaxKbChunks, same \in BOOLEAN : kb_chunks = KbChunks(n, same)
    /\ query = <<"q">>
    /\ q_pc = "expand"
    /\ expansion = NoExpansion
    /\ generated_questions = <<>>
    /\ all_queries = <<>>
    /\ all_embeddings = <<>>
    /\ emb_i = 0
    /\ searched = <<>>
    /\ retrieved_indices = <<>>
    /\ retrieved_order = <<>>
    /\ retrieved_chunks = <<>>
    /\ q_result = "none"

\* generated_questions = generate_hypothetical_questions(query);
\* all_queries = [query] + generated_questions
QueryExpand ==
    /\ q_pc = "expand"
    /\ \E outcome \in ExpansionOutcomes :
          LET r == generate_hypothetical_questions(outcome)
          IN  /\ expansion' = outcome
              /\ IF r.raised
                 THEN /\ q_pc' = "failed"
                      /\ q_result' = "raised: expansion"
                      /\ UNCHANGED <<generated_questions, all_queries>>
                 ELSE /\ q_pc' = "embed"
                      /\ generated_questions' = r.questions
                      /\ all_queries' = <<query>> \o r.questions
                      /\ UNCHANGED q_result
    /\ UNCHANGED <<kb_chunks, query, all_embeddings, emb_i, searched, retrieved_indices,
                   retrieved_order, retrieved_chunks>>
    /\ UNCHANGED <<chunkVars, variant, appVars, buildVars>>

\* all_embeddings = genai.embed_content(content=all_queries, ...)['embedding'];
\* k = ...; retrieved_indices = set()
QueryEmbed ==
    /\ q_pc = "embed"
    /\ all_embeddings' = Embed(all_queries)
    /\ emb_i' = 1
    /\ retrieved_indices' = <<>>
    /\ q_pc' = "search"
    /\ UNCHANGED <<kb_chunks, query, expansion, generated_questions, all_queries, searched,
                   retrieved_order, retrieved_chunks, q_result>>
    /\ UNCHANGED <<chunkVars, variant, appVars, buildVars>>

\* the embedding call raises (no API key in the backend variant, or a service
\* error): the exception leaves process_query_with_gemini
QueryEmbedRaises ==
    /\ q_pc = "embed"
    /\ q_pc' = "failed"
    /\ q_result' = "raised: embedding"
    /\ UNCHANGED <<kb_chunks, query, expansion, generated_questions, all_queries,
                   all_embeddings, emb_i, searched, retrieved_indices, retrieved_order,
                   retrieved_chunks>>
    /\ UNCHANGED <<chunkVars, variant, appVars, buildVars>>

\* for embedding in all_embeddings: distances, indices = index.search(...);
\*     for i in indices[0]: retrieved_indices.add(i)
QuerySearch ==
    /\ q_pc = "search"
    /\ emb_i <= Len(all_embeddings)
    /\ \E labels \in IndexSearch(Len(kb_chunks), TopK(variant)) :
          retrieved_indices' = AddAll(retrieved_indices, labels)
    /\ searched' = Append(searched, all_embeddings[emb_i])
    /\ emb_i' = emb_i + 1
    /\ UNCHANGED <<q_pc, kb_chunks, query, expansion, generated_questions, all_queries,
                   all_embeddings, retrieved_order, retrieved_chunks, q_result>>
    /\ UNCHANGED <<chunkVars, variant, appVars, buildVars>>

\* retrieved_chunks = [chunks[i] for i in retrieved_indices]
QueryCollect ==
    /\ q_pc = "search"
    /\ emb_i > Len(all_embeddings)
    /\ \E order \in IterationOrders(retrieved_indices) :
          /\ retrieved_order' = order
          /\ retrieved_chunks' = [j \in 1..Len(order) |-> PyItem(kb_chunks, order[j])]
    /\ q_pc' = "generate"
    /\ UNCHANGED <<kb_chunks, query, expansion, generated_questions, all_queries,
                   all_embeddings, emb_i, searched, retrieved_indices, q_result>>
    /\ UNCHANGED <<chunkVars, variant, appVars, buildVars>>

\* What model.generate_content(prompt) does: raise, or answer with a text
\* that is or is not JSON
GenerationOutcomes == {"raise", "json", "not json"}

\* try: response = model.generate_content(prompt); return response.text
\* except Exception as e: return json.dumps({"error": ...})     (backend)
\* response = model.generate_content(prompt); return response.text   (root)
GenerateResult(v, outcome) ==
    IF outcome = "raise"
    THEN IF v = "backend" THEN [pc |-> "done", result |-> "error json"]
                          ELSE [pc |-> "failed", result |-> "raised: generation"]
    ELSE [pc |-> "done", result |-> IF outcome = "json" THEN "decision json" ELSE "text, not json"]

QueryGenerate ==
    /\ q_pc = "generate"
    /\ \E outcome \in GenerationOutcomes :
          /\ q_pc' = GenerateResult(variant, outcome).pc
          /\ q_result' = GenerateResult(variant, outcome).result
    /\ UNCHANGED <<kb_chunks, query, expansion, generated_questions, all_queries,
                   all_embeddings, emb_i, searched, retrieved_indices, retrieved_order,
                   retrieved_chunks>>
    /\ UNCHANGED <<chunkVars, variant, appVars, buildVars>>

QueryNext ==
    \/ QueryExpand
    \/ QueryEmbed
    \/ QueryEmbedRaises
    \/ QuerySearch
    \/ QueryCollect
    \/ QueryGenerate

SpecQuery == QueryInit /\ [][QueryNext]_vars

(***************************************************************************)
(* Retrieval claims.                                                       *)
(***************************************************************************)
\* The search loop has run at least once, or is over
Searching == q_pc \in {"search", "generate", "done"} \/ searched # <<>>

\* retrieved_chunks has been built
Collected == q_pc \in {"generate", "done"} \/ (q_pc = "failed" /\ q_result = "raised: generation")

\* The 0-based positions of the chunk sequence that retrieved_chunks was read from
RetrievedPositions ==
    [j \in 1..Len(retrieved_order) |-> PyPosition(retrieved_order[j], Len(kb_chunks))]

\* C3 as stated: every ordinal taken from index.search and used to index the chunk
\* sequence lies in 0..N-1, also when N < k; the retriever returns at most N chunks
\* and never the same chunk position twice.
C3_OrdinalsValidOnSmallIndex ==
    /\ Searching => \A i \in Range(retrieved_indices) : i \in 0..(Len(kb_chunks) - 1)
    /\ Collected =>
          /\ Len(retrieved_chunks) <= Len(kb_chunks)
          /\ NoDuplicates(RetrievedPositions)

\* C4: the ordinals gathered over the query and its n expansions hold each ordinal
\* once and number at most k * (1 + n); with no expansion at most k chunks are
\* returned; the chunks returned are those of the gathered ordinals, one per
\* ordinal, so two ordinals whose chunks have the same text are both kept.
C4_RetrievalSetDeduplicatedByOrdinal ==
    LET k == TopK(variant)
        n == Len(generated_questions)
    IN  /\ Searching =>
              /\ NoDuplicates(retrieved_indices)
              /\ Len(retrieved_indices) <= k * (1 + n)
        /\ Collected =>
              /\ NoDuplicates(retrieved_order)
              /\ Range(retrieved_order) = Range(retrieved_indices)
              /\ Len(retrieved_chunks) = Cardinality(Range(retrieved_indices))
              /\ Len(retrieved_chunks) <= k * (1 + n)
              /\ n = 0 => Len(retrieved_chunks) <= k
              /\ \A j \in 1..Len(retrieved_order) :
                    retrieved_chunks[j] = PyItem(kb_chunks, retrieved_order[j])

\* Several searches hit the same ordinal, and two retrieved ordinals of the index
\* carry the same text: both are in the result
C4_Witness ==
    /\ Collected
    /\ Len(generated_questions) >= 1
    /\ Len(retrieved_indices) < TopK(variant) * Len(all_queries)
    /\ Len(kb_chunks) > TopK(variant)
    /\ \E i, j \in 1..Len(retrieved_order) :
          /\ i # j
          /\ retrieved_order[i] # retrieved_order[j]
          /\ retrieved_chunks[i] = retrieved_chunks[j]

\* C5 as stated: the chunks of the context are in ascending-ordinal order: of two
\* consecutive chunks the first has the strictly smaller ordinal.
C5_ContextInAscendingOrdinalOrder ==
    Collected =>
        \A j \in 1..(Len(retrieved_order) - 1) :
            RetrievedPositions[j] < RetrievedPositions[j + 1]

\* The response that makes the parse raise IndexError (a line "y. ")
MalformedResponse ==
    <<"1", ".", " ", "x", "\n", "y", ".", " ", "\n", "2", ".", " ", "z">>

ExpansionFailed ==
    /\ expansion.kind # "none"
    /\ \/ expansion.kind = "raise"
       \/ expansion.text = MalformedResponse

\* C10: a failure of the generative call (an exception, or a response the parse
\* chokes on) never fails the pipeline: expand returns the empty sequence and
\* all_queries = [query]; the original query is always the first query embedded
\* and the first searched, and every retrieval that completes has searched it.
C10_ExpansionNeverFailsThePipeline ==
    /\ q_result # "raised: expansion"
    /\ (q_pc = "failed") => q_result \in {"raised: embedding", "raised: generation"}
    /\ expansion.kind # "none" =>
          /\ all_queries = <<query>> \o generated_questions
          /\ all_queries[1] = query
    /\ ExpansionFailed => (generated_questions = <<>> /\ all_queries = <<query>>)
    /\ all_embeddings # <<>> => all_embeddings[1] = Embed(<<query>>)[1]
    /\ searched # <<>> => searched[1] = Embed(<<query>>)[1]
    /\ Collected => searched # <<>>

\* The response was malformed and the retrieval went on to search the original query
C10_Witness ==
    /\ expansion.kind # "none"
    /\ expansion.text = MalformedResponse
    /\ Collected
    /\ searched = Embed(<<query>>)

\* The generative call raised and the retrieval went on to search the original query
C10_WitnessRaise ==
    /\ expansion.kind # "none"
    /\ expansion.kind = "raise"
    /\ q_pc = "done"
    /\ searched = Embed(<<query>>)

(***************************************************************************)
(* The single-file build: process_single_file_and_query_rag                *)
(* (src/backend/logic.py) and process_single_file_and_query (src/logic.py).*)
(***************************************************************************)
Kinds == {"pdf", "docx", "txt"}

\* What an extractor does with the uploaded file: raise, or return a text that
\* is empty, whitespace only, short, or longer than one chunk
ExtractOutcomes == {"raise", "empty", "blank", "short", "long"}

TextOf(o) ==
    CASE o = "empty" -> <<>>
      [] o = "blank" -> <<" ", "\n">>
      [] o = "short" -> <<"a", "b">>
      [] o = "long" -> PatternText(DEFAULT_CHUNK_SIZE + 1)

\* `if full_text:`
Truthy(t) == t # None /\ t # <<>>

\* full_text.strip() == ""
IsBlank(t) == Strip(t) = <<>>

\* a recognized extension falls back to the other formats too
TryOrderWithFallback(v, ext) ==
    IF ext \in Kinds THEN <<ext, "pdf", "docx", "txt">> ELSE <<"pdf", "docx", "txt">>

\* try_order: the extractor of a recognized extension alone; for any other
\* extension PDF, DOCX, TXT (backend) or nothing at all (root: unsupported)
TryOrder(v, ext) ==
    IF ext \in Kinds
    THEN <<ext>>
    ELSE IF v = "backend" THEN <<"pdf", "docx", "txt">> ELSE <<>>

SingleInit ==
    /\ ChunkIdle
    /\ QueryIdle
    /\ CorpusIdle
    /\ SharedBuildIdle
    /\ AppIdle
    /\ variant \in {"root", "backend"}
    /\ file_ext \in Kinds \cup {"other"}
    /\ extractors \in [Kinds -> ExtractOutcomes]
    /\ s_pc = "start"
    /\ try_order = <<>>
    /\ try_i = 0
    /\ tried = <<>>
    /\ full_text = None
    /\ last_error = "None"
    /\ query_called = FALSE

\* all_chunks = []; the choice of the extractors by filename.lower().endswith(...)
SingleStart ==
    /\ s_pc = "start"
    /\ try_order' = TryOrder(variant, file_ext)
    /\ try_i' = 1
    /\ IF variant = "root" /\ file_ext \notin Kinds
       THEN /\ s_pc' = "failed"
            /\ build_error' = "unsupported file type"
       ELSE /\ s_pc' = "extract"
            /\ UNCHANGED build_error
    /\ UNCHANGED <<file_ext, extractors, tried, full_text, last_error, query_called>>
    /\ UNCHANGED <<all_chunks, embed_status, index_built, index_ntotal>>
    /\ UNCHANGED <<chunkVars, variant, appVars, queryVars, corpusVars>>

\* backend: one iteration of `for kind in try_order`; root: the one extractor call
SingleTry ==
    /\ s_pc = "extract"
    /\ try_i <= Len(try_order)
    /\ LET kind == try_order[try_i]
           o == extractors[kind]
           more == try_i < Len(try_order)
       IN  /\ tried' = Append(tried, kind)
           /\ try_i' = try_i + 1
           /\ IF o = "raise"
              THEN IF variant = "backend"
                   THEN /\ last_error' = kind
                        /\ s_pc' = IF more THEN "extract" ELSE "check"
                        /\ UNCHANGED <<full_text, build_error>>
                   ELSE /\ s_pc' = "failed"
                        /\ build_error' = "extractor raised"
                        /\ UNCHANGED <<full_text, last_error>>
              ELSE /\ full_text' = TextOf(o)
                   /\ s_pc' = IF variant = "backend" /\ ~Truthy(TextOf(o)) /\ more
                              THEN "extract" ELSE "check"
                   /\ UNCHANGED <<last_error, build_error>>
    /\ UNCHANGED <<file_ext, extractors, try_order, query_called>>
    /\ UNCHANGED <<all_chunks, embed_status, index_built, index_ntotal>>
    /\ UNCHANGED <<chunkVars, variant, appVars, queryVars, corpusVars>>

\* backend: `if full_text is None or full_text.strip() == "": raise ValueError(
\* "Could not extract text from file. Last error: ...")`; both variants:
\* chunks = chunk_text(full_text); all_chunks.extend(chunks);
\* `if not all_chunks: raise ValueError("Could not extract any text chunks ...")`
SingleCheck ==
    /\ s_pc = "check"
    /\ IF variant = "backend" /\ (full_text = None \/ IsBlank(full_text))
       THEN /\ s_pc' = "failed"
            /\ build_error' = "could not extract text"
            /\ UNCHANGED all_chunks
       ELSE LET extended == all_chunks \o
                     chunk_text(full_text, DEFAULT_CHUNK_SIZE, DEFAULT_CHUNK_OVERLAP)
            IN  /\ all_chunks' = extended
                /\ IF extended = <<>>
                   THEN /\ s_pc' = "failed"
                        /\ build_error' = "no text chunks"
                   ELSE /\ s_pc' = "embed"
                        /\ UNCHANGED build_error
    /\ UNCHANGED <<file_ext, extractors, try_order, try_i, tried, full_text, last_error,
                   query_called>>
    /\ UNCHANGED <<embed_status, index_built, index_ntotal>>
    /\ UNCHANGED <<chunkVars, variant, appVars, queryVars, corpusVars>>

\* the failure of the embedding call is swallowed and the build goes on
SingleAfterEmbedIgnoringFailure(ok, n) ==
    [pc |-> "query", built |-> TRUE, ntotal |-> n, error |-> "none"]

\* result = genai.embed_content(content=all_chunks, ...); index = faiss.IndexFlatL2(...);
\* index.add(embeddings_np); `except Exception as e: ...; raise`
SingleAfterEmbed(ok, n) ==
    IF ok
    THEN [pc |-> "query", built |-> TRUE, ntotal |-> n, error |-> "none"]
    ELSE [pc |-> "failed", built |-> FALSE, ntotal |-> 0, error |-> "embedding raised"]

SingleEmbed ==
    /\ s_pc = "embed"
    /\ \E ok \in BOOLEAN :
          LET r == SingleAfterEmbed(ok, Len(all_chunks))
          IN  /\ embed_status' = IF ok THEN "ok" ELSE "raised"
              /\ s_pc' = r.pc
              /\ index_built' = r.built
              /\ index_ntotal' = r.ntotal
              /\ build_error' = r.error
    /\ UNCHANGED <<file_ext, extractors, try_order, try_i, tried, full_text, last_error,
                   query_called>>
    /\ UNCHANGED all_chunks
    /\ UNCHANGED <<chunkVars, variant, appVars, queryVars, corpusVars>>

\* final_response = process_query_with_gemini(query, index, all_chunks); return it
\* (the call itself is SpecQuery; it returns or raises)
SingleQuery ==
    /\ s_pc = "query"
    /\ query_called' = TRUE
    /\ \E raised \in BOOLEAN :
          /\ s_pc' = IF raised THEN "failed" ELSE "done"
          /\ build_error' = IF raised THEN "query raised" ELSE build_error
    /\ UNCHANGED <<file_ext, extractors, try_order, try_i, tried, full_text, last_error>>
    /\ UNCHANGED <<all_chunks, embed_status, index_built, index_ntotal>>
    /\ UNCHANGED <<chunkVars, variant, appVars, queryVars, corpusVars>>

SingleNext ==
    \/ SingleStart
    \/ SingleTry
    \/ SingleCheck
    \/ SingleEmbed
    \/ SingleQuery

SpecSingle == SingleInit /\ [][SingleNext]_vars

(***************************************************************************)
(* The corpus build: load_and_chunk_documents, create_embeddings_and_save  *)
(* and the build_kb branch of src/backend/logic.py's main block.           *)
(***************************************************************************)
MaxFiles == 2

\* An entry of os.listdir(source_path): a directory, a file of an unsupported
\* type, or a .pdf/.docx/.txt file with what its extractor does
DirEntries ==
    {[is_file |-> FALSE, ext |-> "other", outcome |-> "empty"],
     [is_file |-> TRUE, ext |-> "other", outcome |-> "short"]}
    \cup {[is_file |-> TRUE, ext |-> e, outcome |-> o] : e \in Kinds, o \in ExtractOutcomes}

\* A knowledge base saved by an earlier build
OldFile == [build |-> "old", n |-> 1]

\* the error of one file ends the whole build
FileStepAborting(f, acc) ==
    IF ~f.is_file \/ f.ext \notin Kinds
    THEN [chunks |-> acc, abort |-> FALSE]
    ELSE IF f.outcome = "raise"
         THEN [chunks |-> acc, abort |-> TRUE]
         ELSE [chunks |-> acc \o chunk_text(TextOf(f.outcome), DEFAULT_CHUNK_SIZE,
                                            DEFAULT_CHUNK_OVERLAP),
               abort |-> FALSE]

\* The body of `for filename in os.listdir(source_path)` for one entry: `continue`
\* for a directory and for an unsupported type, the except clause for an
\* extractor that raises, and otherwise all_chunks.extend(chunk_text(full_text))
FileStep(f, acc) ==
    IF ~f.is_file \/ f.ext \notin Kinds \/ f.outcome = "raise"
    THEN [chunks |-> acc, abort |-> FALSE]
    ELSE [chunks |-> acc \o chunk_text(TextOf(f.outcome), DEFAULT_CHUNK_SIZE,
                                       DEFAULT_CHUNK_OVERLAP),
          abort |-> FALSE]

CorpusInit ==
    /\ ChunkIdle
    /\ QueryIdle
    /\ SingleIdle
    /\ SharedBuildIdle
    /\ AppIdle
    /\ variant \in {"root", "backend"}
    /\ dir_exists \in BOOLEAN
    /\ files \in SeqsUpTo(DirEntries, MaxFiles)
    /\ ~dir_exists => files = <<>>
    /\ \E old \in {NoFile, OldFile} :
          /\ disk_embeddings = old
          /\ disk_chunks = old
    /\ b_pc = "load"
    /\ file_i = 0
    /\ create_result = "none"

\* all_chunks = []; `if not os.path.exists(source_path): ...; return all_chunks`
CorpusLoad ==
    /\ b_pc = "load"
    /\ all_chunks' = <<>>
    /\ file_i' = 1
    /\ b_pc' = IF dir_exists THEN "files" ELSE "loaded"
    /\ UNCHANGED <<dir_exists, files, disk_embeddings, disk_chunks, create_result>>
    /\ UNCHANGED <<embed_status, index_built, index_ntotal, build_error>>
    /\ UNCHANGED <<chunkVars, variant, appVars, queryVars, singleVars>>

\* one iteration of `for filename in os.listdir(source_path)`
CorpusFile ==
    /\ b_pc = "files"
    /\ file_i <= Len(files)
    /\ LET r == FileStep(files[file_i], all_chunks)
       IN  /\ all_chunks' = r.chunks
           /\ b_pc' = IF r.abort THEN "raised" ELSE "files"
           /\ build_error' = IF r.abort THEN "extractor raised" ELSE build_error
    /\ file_i' = file_i + 1
    /\ UNCHANGED <<dir_exists, files, disk_embeddings, disk_chunks, create_result>>
    /\ UNCHANGED <<embed_status, index_built, index_ntotal>>
    /\ UNCHANGED <<chunkVars, variant, appVars, queryVars, singleVars>>

\* the loop is over: return all_chunks
CorpusLoaded ==
    /\ b_pc = "files"
    /\ file_i > Len(files)
    /\ b_pc' = "loaded"
    /\ UNCHANGED <<dir_exists, files, file_i, disk_embeddings, disk_chunks, create_result>>
    /\ UNCHANGED sharedBuildVars
    /\ UNCHANGED <<chunkVars, variant, appVars, queryVars, singleVars>>

\* chunks = load_and_chunk_documents(); `if chunks:` create_embeddings_and_save(chunks)
\* `else: print("No chunks to build KB."); exit(1)` (build_index.py: nothing is done)
CorpusMain ==
    /\ b_pc = "loaded"
    /\ IF all_chunks # <<>>
       THEN /\ b_pc' = "embed"
            /\ UNCHANGED build_error
       ELSE /\ b_pc' = IF variant = "backend" THEN "exit 1" ELSE "complete"
            /\ build_error' = "no chunks"
    /\ UNCHANGED <<dir_exists, files, file_i, disk_embeddings, disk_chunks, create_result>>
    /\ UNCHANGED <<all_chunks, embed_status, index_built, index_ntotal>>
    /\ UNCHANGED <<chunkVars, variant, appVars, queryVars, singleVars>>

\* the failure of the embedding call is swallowed and the files are written
AfterCorpusEmbedIgnoringFailure(v, ok) ==
    [pc |-> "save embeddings", result |-> "none", error |-> "none"]

\* result = genai.embed_content(content=chunks, ...) inside the try block:
\* `except Exception as e: ...; raise` (backend), `...; return False` (root)
AfterCorpusEmbed(v, ok) ==
    IF ok
    THEN [pc |-> "save embeddings", result |-> "none", error |-> "none"]
    ELSE IF v = "backend"
         THEN [pc |-> "raised", result |-> "raised", error |-> "embedding raised"]
         ELSE [pc |-> "returned", result |-> "False", error |-> "embedding raised"]

CorpusEmbed ==
    /\ b_pc = "embed"
    /\ \E ok \in BOOLEAN :
          LET r == AfterCorpusEmbed(variant, ok)
          IN  /\ embed_status' = IF ok THEN "ok" ELSE "raised"
              /\ b_pc' = r.pc
              /\ create_result' = r.result
              /\ build_error' = r.error
    /\ UNCHANGED <<dir_exists, files, file_i, disk_embeddings, disk_chunks>>
    /\ UNCHANGED <<all_chunks, index_built, index_ntotal>>
    /\ UNCHANGED <<chunkVars, variant, appVars, queryVars, singleVars>>

\* np.save(CACHE_EMBEDDINGS_PATH, embeddings_np)
CorpusSaveEmbeddings ==
    /\ b_pc = "save embeddings"
    /\ disk_embeddings' = [build |-> "new", n |-> Len(all_chunks)]
    /\ b_pc' = "save chunks"
    /\ UNCHANGED <<dir_exists, files, file_i, disk_chunks, create_result>>
    /\ UNCHANGED sharedBuildVars
    /\ UNCHANGED <<chunkVars, variant, appVars, queryVars, singleVars>>

\* with open(CACHE_CHUNKS_PATH, 'w') as f: json.dump(chunks, f); return True
CorpusSaveChunks ==
    /\ b_pc = "save chunks"
    /\ disk_chunks' = [build |-> "new", n |-> Len(all_chunks)]
    /\ create_result' = "True"
    /\ b_pc' = "returned"
    /\ UNCHANGED <<dir_exists, files, file_i, disk_embeddings>>
    /\ UNCHANGED sharedBuildVars
    /\ UNCHANGED <<chunkVars, variant, appVars, queryVars, singleVars>>

\* backend: `if create_embeddings_and_save(chunks): exit(0)` `else: exit(1)`;
\* build_index.py does not look at the result
CorpusExit ==
    /\ b_pc = "returned"
    /\ b_pc' = IF variant = "backend"
               THEN IF create_result = "True" THEN "exit 0" ELSE "exit 1"
               ELSE "complete"
    /\ UNCHANGED <<dir_exists, files, file_i, disk_embeddings, disk_chunks, create_result>>
    /\ UNCHANGED sharedBuildVars
    /\ UNCHANGED <<chunkVars, variant, appVars, queryVars, singleVars>>

CorpusNext ==
    \/ CorpusLoad
    \/ CorpusFile
    \/ CorpusLoaded
    \/ CorpusMain
    \/ CorpusEmbed
    \/ CorpusSaveEmbeddings
    \/ CorpusSaveChunks
    \/ CorpusExit

SpecCorpus == CorpusInit /\ [][CorpusNext]_vars

(***************************************************************************)
(* Both builds: an upload (single file) or a rebuild of the corpus.        *)
(***************************************************************************)
BuildInit == SingleInit \/ CorpusInit

BuildNext == SingleNext \/ CorpusNext

SpecBuild == BuildInit /\ [][BuildNext]_vars

(***************************************************************************)
(* Build claims.                                                           *)
(***************************************************************************)
\* The extraction of the single-file build is over
ExtractionOver == s_pc \in {"check", "embed", "query", "done", "failed"}

\* The extractor of this kind returns non-empty text for the uploaded file
YieldsText(kind) == extractors[kind] \notin {"raise", "empty"}

FallbackOrder == <<"pdf", "docx", "txt">>

\* PDF, DOCX, TXT up to the first that yields non-empty text
FallbackAttempts ==
    LET hits == {i \in 1..3 : YieldsText(FallbackOrder[i])}
    IN  IF hits = {} THEN FallbackOrder
        ELSE SubSeq(FallbackOrder, 1, CHOOSE i \in hits : \A j \in hits : i <= j)

\* The kind whose extractor raised last among those tried, "None" if none raised
LastRaised ==
    LET r == {i \in 1..Len(tried) : extractors[tried[i]] = "raise"}
    IN  IF r = {} THEN "None" ELSE tried[CHOOSE i \in r : \A j \in r : j <= i]

\* The text the last extractor that returned left in full_text
LastReturned ==
    LET r == {i \in 1..Len(tried) : extractors[tried[i]] # "raise"}
    IN  IF r = {} THEN None
        ELSE TextOf(extractors[tried[CHOOSE i \in r : \A j \in r : j <= i]])

ExtractionFailed ==
    s_pc = "failed" /\ build_error \in {"could not extract text", "extractor raised",
                                        "unsupported file type"}

\* C6 as stated: a recognized extension has its extractor tried first; when the
\* extension is unrecognized or that extractor yields no text, PDF, DOCX, TXT are
\* attempted in order until one yields non-empty text; the build fails at the
\* extraction only when all are exhausted, carrying the last extractor error.
C6_FallbackAfterRecognizedExtractor ==
    ExtractionOver =>
        /\ tried = IF file_ext \in Kinds
                   THEN IF YieldsText(file_ext) THEN <<file_ext>>
                        ELSE <<file_ext>> \o FallbackAttempts
                   ELSE FallbackAttempts
        /\ ExtractionFailed =>
              /\ \A kind \in Kinds : ~YieldsText(kind)
              /\ last_error = LastRaised

\* C6 amended: a recognized extension has exactly its own extractor tried and no
\* other, whatever it yields; an unrecognized extension has PDF, DOCX, TXT tried in
\* order up to the first that returns non-empty text (backend) or is refused as
\* unsupported with no extractor tried (root); the backend build fails with the
\* could-not-extract error, carrying the last extractor error, exactly when the
\* text it is left with is missing or blank.
C6_RecognizedExtractorAloneElseFallback ==
    ExtractionOver =>
        /\ file_ext \in Kinds => tried = <<file_ext>>
        /\ (file_ext \notin Kinds /\ variant = "backend") => tried = FallbackAttempts
        /\ (file_ext \notin Kinds /\ variant = "root") =>
              (tried = <<>> /\ s_pc = "failed" /\ build_error = "unsupported file type")
        /\ variant = "backend" =>
              /\ full_text = LastReturned
              /\ last_error = LastRaised
              /\ (s_pc # "check") =>
                    ((build_error = "could not extract text")
                        <=> (LastReturned = None \/ IsBlank(LastReturned)))
        /\ (variant = "root" /\ file_ext \in Kinds) =>
              ((build_error = "extractor raised") <=> extractors[file_ext] = "raise")

\* The upload is a text file named .pdf: the PDF extractor raised, the TXT extractor
\* would have returned text, and the build failed without trying it
C6_Witness ==
    /\ variant = "backend"
    /\ s_pc = "failed"
    /\ file_ext = "pdf"
    /\ extractors["pdf"] = "raise"
    /\ extractors["txt"] = "short"
    /\ tried = <<"pdf">>
    /\ build_error = "could not extract text"
    /\ last_error = "pdf"

\* Every entry of the corpus directory is skipped or extracts to empty or blank text
CorpusHasNoText ==
    \A i \in 1..Len(files) :
        \/ ~files[i].is_file
        \/ files[i].ext \notin Kinds
        \/ files[i].outcome \in {"raise", "empty", "blank"}

\* C7 as stated: a build that yields no usable chunk text (an upload whose
\* extracted text is empty, a corpus whose files all extract to empty text) fails
\* with the empty-corpus error, which is not the extraction error; no embedding
\* call is made and no knowledge base is built or persisted.
C7_EmptyCorpusErrorOnBothPaths ==
    /\ (s_pc \in {"embed", "query", "done", "failed"} /\ full_text # None
           /\ IsBlank(full_text)) =>
          /\ s_pc = "failed"
          /\ build_error = "no text chunks"
          /\ embed_status = "not called"
          /\ ~index_built
    /\ (b_pc \in {"embed", "save embeddings", "save chunks", "returned", "raised",
                  "exit 0", "exit 1", "complete"} /\ CorpusHasNoText) =>
          /\ build_error = "no chunks"
          /\ embed_status = "not called"
          /\ disk_embeddings.build # "new"
          /\ disk_chunks.build # "new"

\* The chunks of one directory entry, by the reference windows of C1
EntryChunks(f) ==
    IF f.is_file /\ f.ext \in Kinds /\ f.outcome # "raise"
    THEN RefWindows(TextOf(f.outcome), DEFAULT_CHUNK_SIZE, DEFAULT_CHUNK_OVERLAP)
    ELSE <<>>

RECURSIVE ConcatEntryChunks(_)
ConcatEntryChunks(fs) ==
    IF fs = <<>> THEN <<>> ELSE EntryChunks(Head(fs)) \o ConcatEntryChunks(Tail(fs))

CorpusLoadOver == b_pc \notin {"idle", "load", "files"}

\* C8: in the corpus build a file of an unsupported type and a file whose
\* extraction raises contribute no chunk and do not abort the build; every other
\* file is chunked on its own and the chunk sequence is the concatenation of the
\* per-file chunk lists in the order of iteration.
C8_CorpusChunksAreConcatenationPerFile ==
    /\ build_error # "extractor raised"
    /\ b_pc = "files" =>
          all_chunks = ConcatEntryChunks(SubSeq(files, 1, file_i - 1))
    /\ (CorpusLoadOver /\ dir_exists) =>
          /\ file_i = Len(files) + 1
          /\ all_chunks = ConcatEntryChunks(files)

\* A file whose extraction raised, then a long file: the build went on and holds
\* the two chunks of the second file
C8_Witness ==
    /\ b_pc = "embed"
    /\ Len(files) = 2
    /\ files[1].is_file /\ files[1].ext \in Kinds /\ files[1].outcome = "raise"
    /\ files[2].is_file /\ files[2].ext \in Kinds /\ files[2].outcome = "long"
    /\ Len(all_chunks) = 2

\* C9: when the embedding call of a build fails, the build fails visibly: the
\* single-file build raises with no index built and no query processed; the corpus
\* build raises (backend) or returns False (root) and the embeddings and chunk files
\* are as they were; a query is only ever processed against the index of all chunks.
C9_EmbeddingFailureFailsTheBuild ==
    /\ embed_status = "raised" =>
          /\ build_error = "embedding raised"
          /\ ~index_built
          /\ ~query_called
          /\ s_pc \in {"idle", "failed"}
          /\ b_pc \in {"idle", "raised", "returned", "exit 1", "complete"}
          /\ b_pc # "idle" => create_result \in {"raised", "False"}
          /\ b_pc \in {"exit 1", "complete"} => create_result = "False"
          /\ disk_embeddings = disk_chunks
          /\ disk_embeddings \in {NoFile, OldFile}
    /\ (query_called \/ s_pc = "query") =>
          /\ embed_status = "ok"
          /\ index_built
          /\ index_ntotal = Len(all_chunks)
    /\ (disk_embeddings.build = "new" \/ disk_chunks.build = "new") => embed_status = "ok"

\* The embedding call of a rebuild failed while an older knowledge base was on disk
C9_Witness ==
    /\ embed_status = "raised"
    /\ b_pc = "raised"
    /\ Len(all_chunks) >= 2
    /\ disk_embeddings = OldFile
    /\ disk_chunks = OldFile

(***************************************************************************)
(* Generation claims.                                                      *)
(***************************************************************************)
\* model.generate_content(prompt) raised in the final step of the pipeline: only
\* these two results come from the "raise" outcome of GenerateResult
GenerationRaised == q_result \in {"error json", "raised: generation"}

\* C11 as stated: when the generation service raises during adjudication, the
\* pipeline does not raise: it returns a single JSON object carrying the error.
C11_GenerationErrorReturnsErrorJson ==
    GenerationRaised => (q_pc = "done" /\ q_result = "error json")

(***************************************************************************)
(* A query request: the endpoint that calls the pipeline and answers.      *)
(* src/api/index.py calls process_query_with_gemini in its own process     *)
(* (root); src/backend/app.py runs src/backend/logic.py as a worker process *)
(* and reads what it printed (backend).                                    *)
(***************************************************************************)
\* json.loads(response_text) returns (TRUE) or raises json.JSONDecodeError (FALSE)
JsonLoads(t) == t \in {"decision json", "error json"}

\* The worker in mode test_prebuilt_kb: `result_json = process_query_with_gemini(...);
\* print(result_json); exit(0)`, `except Exception as e: ...; exit(1)`
WorkerQuery(pc, result) ==
    IF pc = "failed"
    THEN [returncode |-> 1, stdout |-> "none"]
    ELSE [returncode |-> 0, stdout |-> result]

\* run_python_worker: `if result.returncode != 0: raise Exception(...)`,
\* `return result.stdout.strip()`
RunPythonWorker(w) ==
    IF w.returncode # 0
    THEN [raised |-> TRUE, text |-> "none"]
    ELSE [raised |-> FALSE, text |-> w.stdout]

\* The text the endpoint holds after its call of the pipeline, or the exception
PipelineCall(v, pc, result) ==
    IF v = "backend"
    THEN RunPythonWorker(WorkerQuery(pc, result))
    ELSE [raised |-> pc = "failed", text |-> IF pc = "failed" THEN "none" ELSE result]

\* the endpoint sends the text of the pipeline as it is
EndpointAnswerUnparsed(call) ==
    IF call.raised
    THEN [status |-> 500, body |-> "error object"]
    ELSE [status |-> 200, body |-> call.text]

\* try: response_text = ...; response_json = json.loads(response_text);
\*      return jsonify(response_json)
\* except Exception as e: return jsonify({"error": ..., "details": str(e)}), 500
EndpointAnswer(call) ==
    IF call.raised \/ ~JsonLoads(call.text)
    THEN [status |-> 500, body |-> "error object"]
    ELSE [status |-> 200, body |-> call.text]

\* The pipeline has returned or raised: the endpoint answers the request
Respond ==
    /\ q_pc \in {"done", "failed"}
    /\ response = NoResponse
    /\ response' = EndpointAnswer(PipelineCall(variant, q_pc, q_result))
    /\ UNCHANGED <<chunkVars, variant, persistVars, uploadVars, queryVars, buildVars>>

RequestNext == QueryNext \/ Respond

SpecRequest == QueryInit /\ [][RequestNext]_vars

\* C12: when the generation succeeds with a text that is not valid JSON, the
\* request ends in an error the caller sees, one structured error object with
\* status 500; the text is never sent to the caller in place of a Decision, and
\* every answer that is not the error object is JSON the pipeline returned.
C12_NonJsonDecisionIsACallerVisibleError ==
    response # NoResponse =>
        /\ q_result = "text, not json" =>
              response = [status |-> 500, body |-> "error object"]
        /\ response.body # "text, not json"
        /\ response.status \in {200, 500}
        /\ response.status = 200 =>
              (response.body = q_result /\ JsonLoads(response.body))
        /\ response.status = 500 => response.body = "error object"

\* A request whose generation answered with text that is not JSON was answered
\* with the error object
C12_Witness ==
    /\ q_pc = "done"
    /\ q_result = "text, not json"
    /\ response = [status |-> 500, body |-> "error object"]

(***************************************************************************)
(* The persistent knowledge base: the files knowledge_base.npy and         *)
(* knowledge_base_chunks.json, the server that answers queries from them   *)
(* and a rebuild (build_kb) that may run at the same time.                 *)
(* root: src/api/index.py loads the files when the module is imported and  *)
(* every request reads the module's index and chunks.                      *)
(* backend: src/backend/app.py checks at start-up that the files exist;    *)
(* every request runs the worker, which loads the files itself.            *)
(***************************************************************************)
\* The source directories a rebuild reads: one short file, or one long file
RebuildCorpora ==
    {<<[is_file |-> TRUE, ext |-> "txt", outcome |-> o]>> : o \in {"short", "long"}}

PersistInit ==
    /\ ChunkIdle
    /\ QueryIdle
    /\ SingleIdle
    /\ SharedBuildIdle
    /\ response = NoResponse
    /\ variant \in {"root", "backend"}
    /\ dir_exists = TRUE
    /\ files \in RebuildCorpora
    /\ \E old \in {NoFile, OldFile} :
          /\ disk_embeddings = old
          /\ disk_chunks = old
    /\ b_pc = "load"
    /\ file_i = 0
    /\ create_result = "none"
    /\ p_pc = "start"
    /\ prebuilt_index = NoFile
    /\ prebuilt_chunks = NoFile
    /\ loads = 0
    /\ r_pc = [r \in Requests |-> "idle"]
    /\ r_index = [r \in Requests |-> NoFile]
    /\ r_chunks = [r \in Requests |-> NoFile]
    /\ r_response = [r \in Requests |-> NoResponse]
    /\ UploadIdle

\* root: `embeddings = np.load(embeddings_path)`; `except FileNotFoundError:
\* index = None; chunks = None`
ServerLoadEmbeddings ==
    /\ variant = "root"
    /\ p_pc = "start"
    /\ IF disk_embeddings = NoFile
       THEN /\ p_pc' = "no kb"
            /\ UNCHANGED prebuilt_index
       ELSE /\ p_pc' = "read chunks"
            /\ prebuilt_index' = disk_embeddings
    /\ UNCHANGED <<prebuilt_chunks, loads, r_pc, r_index, r_chunks, r_response>>
    /\ UNCHANGED <<chunkVars, variant, response, uploadVars, queryVars, buildVars>>

\* root: `chunks = json.load(f)`; index = faiss.IndexFlatL2(embeddings.shape[1]);
\* index.add(embeddings); `except FileNotFoundError: index = None; chunks = None`
ServerLoadChunks ==
    /\ variant = "root"
    /\ p_pc = "read chunks"
    /\ IF disk_chunks = NoFile
       THEN /\ p_pc' = "no kb"
            /\ prebuilt_index' = NoFile
            /\ UNCHANGED <<prebuilt_chunks, loads>>
       ELSE /\ p_pc' = "loaded"
            /\ prebuilt_chunks' = disk_chunks
            /\ loads' = loads + 1
            /\ UNCHANGED prebuilt_index
    /\ UNCHANGED <<r_pc, r_index, r_chunks, r_response>>
    /\ UNCHANGED <<chunkVars, variant, response, uploadVars, queryVars, buildVars>>

\* backend: `if not os.path.exists(prebuilt_embeddings_path) or not
\* os.path.exists(prebuilt_chunks_path): print("WARNING: ...")`: nothing is loaded
ServerCheckFiles ==
    /\ variant = "backend"
    /\ p_pc = "start"
    /\ p_pc' = "checked"
    /\ UNCHANGED <<prebuilt_index, prebuilt_chunks, loads, r_pc, r_index, r_chunks, r_response>>
    /\ UNCHANGED <<chunkVars, variant, response, uploadVars, queryVars, buildVars>>

\* root: `if index is None: return jsonify({"error": ...}), 500`; otherwise the
\* pipeline is called with the index and the chunks of the module
RequestRoot(r) ==
    /\ variant = "root"
    /\ p_pc \in {"loaded", "no kb"}
    /\ r_pc[r] = "idle"
    /\ IF p_pc = "no kb"
       THEN /\ r_pc' = [r_pc EXCEPT ![r] = "answered"]
            /\ r_response' = [r_response EXCEPT ![r] = [status |-> 500, body |-> "error object"]]
            /\ UNCHANGED <<r_index, r_chunks>>
       ELSE /\ r_pc' = [r_pc EXCEPT ![r] = "pipeline"]
            /\ r_index' = [r_index EXCEPT ![r] = prebuilt_index]
            /\ r_chunks' = [r_chunks EXCEPT ![r] = prebuilt_chunks]
            /\ UNCHANGED r_response
    /\ UNCHANGED <<p_pc, prebuilt_index, prebuilt_chunks, loads>>
    /\ UNCHANGED <<chunkVars, variant, response, uploadVars, queryVars, buildVars>>

\* backend worker: `prebuilt_embeddings = np.load(CACHE_EMBEDDINGS_PATH)`;
\* `except FileNotFoundError: ...; exit(1)`, which the endpoint answers with 500
WorkerLoadEmbeddings(r) ==
    /\ variant = "backend"
    /\ p_pc = "checked"
    /\ r_pc[r] = "idle"
    /\ IF disk_embeddings = NoFile
       THEN /\ r_pc' = [r_pc EXCEPT ![r] = "answered"]
            /\ r_response' = [r_response EXCEPT ![r] =
                                 EndpointAnswer(RunPythonWorker([returncode |-> 1,
                                                                 stdout |-> "none"]))]
            /\ UNCHANGED r_index
       ELSE /\ r_pc' = [r_pc EXCEPT ![r] = "read chunks"]
            /\ r_index' = [r_index EXCEPT ![r] = disk_embeddings]
            /\ UNCHANGED r_response
    /\ UNCHANGED <<p_pc, prebuilt_index, prebuilt_chunks, loads, r_chunks>>
    /\ UNCHANGED <<chunkVars, variant, response, uploadVars, queryVars, buildVars>>

\* backend worker: `prebuilt_chunks = json.load(f)`; prebuilt_index =
\* faiss.IndexFlatL2(...); prebuilt_index.add(prebuilt_embeddings)
WorkerLoadChunks(r) ==
    /\ variant = "backend"
    /\ r_pc[r] = "read chunks"
    /\ IF disk_chunks = NoFile
       THEN /\ r_pc' = [r_pc EXCEPT ![r] = "answered"]
            /\ r_response' = [r_response EXCEPT ![r] =
                                 EndpointAnswer(RunPythonWorker([returncode |-> 1,
                                                                 stdout |-> "none"]))]
            /\ UNCHANGED <<r_chunks, loads>>
       ELSE /\ r_pc' = [r_pc EXCEPT ![r] = "pipeline"]
            /\ r_chunks' = [r_chunks EXCEPT ![r] = disk_chunks]
            /\ loads' = loads + 1
            /\ UNCHANGED r_response
    /\ UNCHANGED <<p_pc, prebuilt_index, prebuilt_chunks, r_index>>
    /\ UNCHANGED <<chunkVars, variant, response, uploadVars, queryVars, buildVars>>

\* How a call process_query_with_gemini(query, index, chunks) can end (SpecQuery):
\* the embedding call raises, chunks[i] raises IndexError for a label of the index
\* beyond the chunk sequence, or the generation step ends it
PipelineOutcomes(v, idx, ch) ==
    {[pc |-> "failed", result |-> "raised: embedding"]}
    \cup (IF idx.n > ch.n THEN {[pc |-> "failed", result |-> "raised: chunks[i]"]} ELSE {})
    \cup {GenerateResult(v, o) : o \in GenerationOutcomes}

\* response_text = process_query_with_gemini(query, index, chunks) (root) or the
\* worker's call of it (backend), and the answer of the endpoint
RequestPipeline(r) ==
    /\ r_pc[r] = "pipeline"
    /\ \E o \in PipelineOutcomes(variant, r_index[r], r_chunks[r]) :
          r_response' = [r_response EXCEPT ![r] =
                            EndpointAnswer(PipelineCall(variant, o.pc, o.result))]
    /\ r_pc' = [r_pc EXCEPT ![r] = "answered"]
    /\ UNCHANGED <<p_pc, prebuilt_index, prebuilt_chunks, loads, r_index, r_chunks>>
    /\ UNCHANGED <<chunkVars, variant, response, uploadVars, queryVars, buildVars>>

PersistNext ==
    \/ ServerLoadEmbeddings
    \/ ServerLoadChunks
    \/ ServerCheckFiles
    \/ \E r \in Requests : RequestRoot(r)
    \/ \E r \in Requests : WorkerLoadEmbeddings(r)
    \/ \E r \in Requests : WorkerLoadChunks(r)
    \/ \E r \in Requests : RequestPipeline(r)
    \/ CorpusNext

SpecPersist == PersistInit /\ [][PersistNext]_vars

(***************************************************************************)
(* Persistent knowledge-base claims.                                       *)
(***************************************************************************)
\* The pipeline has been called for request r, with r_index[r] and r_chunks[r]
Served(r) == r_pc[r] = "pipeline" \/ (r_pc[r] = "answered" /\ r_chunks[r] # NoFile)

\* C13 as stated: the load of the persisted knowledge base is all or nothing: with
\* a file missing or the number of stored embeddings different from the number of
\* stored chunks no query is served from it, so every knowledge base that serves
\* a query has one embedding per chunk.
C13_LoadRejectsLengthMismatch ==
    /\ \A r \in Requests :
          Served(r) =>
              /\ r_index[r] # NoFile
              /\ r_chunks[r] # NoFile
              /\ r_index[r].n = r_chunks[r].n
    /\ p_pc = "loaded" => prebuilt_index.n = prebuilt_chunks.n

(***************************************************************************)
(* The upload endpoint, process_upload_endpoint of src/app.py and          *)
(* src/backend/app.py, serving several requests at a time.  A file of the  *)
(* uploads folder is known by the request whose bytes it holds (0: no file).*)
(***************************************************************************)
UploadInit ==
    /\ ChunkIdle
    /\ QueryIdle
    /\ BuildIdle
    /\ response = NoResponse
    /\ PersistIdle
    /\ variant \in {"root", "backend"}
    /\ uploads = [n \in FileNames |-> 0]
    /\ u_pc = [u \in Uploads |-> "idle"]
    /\ u_name = [u \in Uploads |-> "none"]
    /\ u_read = [u \in Uploads |-> 0]
    /\ u_lost = [u \in Uploads |-> FALSE]
    /\ u_response = [u \in Uploads |-> NoResponse]

\* What a request carries: no file or no query, a file with an empty name, or a
\* file whose sanitized name is one of FileNames or is empty
UploadKinds == {"no file or query", "no selected file", ""} \cup FileNames

\* the checks of the request; filename = secure_filename(file.filename);
\* temp_file_path = os.path.join(app.config['UPLOAD_FOLDER'], filename)
UploadStart(u) ==
    /\ u_pc[u] = "idle"
    /\ \E kind \in UploadKinds :
          IF kind \in {"no file or query", "no selected file"}
          THEN /\ u_pc' = [u_pc EXCEPT ![u] = "done"]
               /\ u_response' = [u_response EXCEPT ![u] = [status |-> 400, body |-> "error object"]]
               /\ UNCHANGED u_name
          ELSE /\ u_pc' = [u_pc EXCEPT ![u] = "save"]
               /\ u_name' = [u_name EXCEPT ![u] = kind]
               /\ UNCHANGED u_response
    /\ UNCHANGED <<uploads, u_read, u_lost>>
    /\ UNCHANGED <<chunkVars, variant, response, persistVars, queryVars, buildVars>>

\* The file of request v is saved and its ingestion has not read it yet
AwaitingRead(v) == u_pc[v] = "extract"

\* The requests that lose their file when request u writes or removes the file n
Losers(u, n) ==
    {v \in Uploads : v # u /\ AwaitingRead(v) /\ u_name[v] = n /\ uploads[n] = v}

\* the temporary file is removed only when the request succeeded
AfterTryOnlyOnSuccess(outcome) == IF outcome = "returned" THEN "finally" ELSE "done"

\* try: ... except Exception as e: ... finally: the clean-up runs however the
\* try block ended
AfterTry(outcome) == "finally"

\* What the endpoint answers when its try block returned or raised
UploadCalls ==
    {[raised |-> TRUE, text |-> "none"],
     [raised |-> FALSE, text |-> "decision json"],
     [raised |-> FALSE, text |-> "text, not json"]}

\* file.save(temp_file_path): the file is written over whatever is at the path
\* (TRUE), or the save raises, with or without a file left at the path; an
\* empty name makes the path the uploads folder itself and the save raises
UploadSave(u) ==
    /\ u_pc[u] = "save"
    /\ \E ok \in BOOLEAN, written \in BOOLEAN :
          LET n == u_name[u]
              writes == n # "" /\ (ok \/ written)
              saved == n # "" /\ ok
          IN  /\ ok => written
              /\ uploads' = IF writes THEN [uploads EXCEPT ![n] = u] ELSE uploads
              /\ u_lost' = IF writes
                           THEN [v \in Uploads |-> u_lost[v] \/ v \in Losers(u, n)]
                           ELSE u_lost
              /\ u_pc' = [u_pc EXCEPT ![u] = IF saved THEN "extract" ELSE AfterTry("raised")]
              /\ u_response' = IF saved THEN u_response
                               ELSE [u_response EXCEPT ![u] =
                                        EndpointAnswer([raised |-> TRUE, text |-> "none"])]
    /\ UNCHANGED <<u_name, u_read>>
    /\ UNCHANGED <<chunkVars, variant, response, persistVars, queryVars, buildVars>>

\* process_single_file_and_query[_rag](temp_file_path, query): the extractor opens
\* and reads the file that is at the path now, or raises when there is none
UploadExtract(u) ==
    /\ u_pc[u] = "extract"
    /\ LET n == u_name[u]
       IN  IF uploads[n] = 0
           THEN /\ u_pc' = [u_pc EXCEPT ![u] = AfterTry("raised")]
                /\ u_response' = [u_response EXCEPT ![u] =
                                     EndpointAnswer([raised |-> TRUE, text |-> "none"])]
                /\ UNCHANGED u_read
           ELSE /\ u_pc' = [u_pc EXCEPT ![u] = "pipeline"]
                /\ u_read' = [u_read EXCEPT ![u] = uploads[n]]
                /\ UNCHANGED u_response
    /\ UNCHANGED <<uploads, u_name, u_lost>>
    /\ UNCHANGED <<chunkVars, variant, response, persistVars, queryVars, buildVars>>

\* the rest of the build and the query: a ValueError of the build (no text), an
\* exception of the embedding or the generation, or the text of the generation;
\* response_json = json.loads(response_text); return jsonify(response_json)
UploadPipeline(u) ==
    /\ u_pc[u] = "pipeline"
    /\ \E call \in UploadCalls :
          /\ u_response' = [u_response EXCEPT ![u] = EndpointAnswer(call)]
          /\ u_pc' = [u_pc EXCEPT ![u] =
                         AfterTry(IF EndpointAnswer(call).status = 200
                                  THEN "returned" ELSE "raised")]
    /\ UNCHANGED <<uploads, u_name, u_read, u_lost>>
    /\ UNCHANGED <<chunkVars, variant, response, persistVars, queryVars, buildVars>>

\* finally: `if os.path.exists(temp_file_path):` (the uploads folder itself
\* exists when the name is empty)
UploadCleanupCheck(u) ==
    /\ u_pc[u] = "finally"
    /\ LET n == u_name[u]
           exists == n = "" \/ uploads[n] # 0
       IN  u_pc' = [u_pc EXCEPT ![u] = IF exists THEN "remove" ELSE "done"]
    /\ UNCHANGED <<uploads, u_name, u_read, u_lost, u_response>>
    /\ UNCHANGED <<chunkVars, variant, response, persistVars, queryVars, buildVars>>

\* `os.remove(temp_file_path)`: removes the file that is at the path now; raises
\* when the path is the folder or when the file has been removed in between, and
\* the exception of the finally block ends the request with a server error
UploadRemove(u) ==
    /\ u_pc[u] = "remove"
    /\ LET n == u_name[u]
       IN  IF n = "" \/ uploads[n] = 0
           THEN /\ u_response' = [u_response EXCEPT ![u] =
                                     [status |-> 500, body |-> "server error page"]]
                /\ UNCHANGED <<uploads, u_lost>>
           ELSE /\ uploads' = [uploads EXCEPT ![n] = 0]
                /\ u_lost' = [v \in Uploads |-> u_lost[v] \/ v \in Losers(u, n)]
                /\ UNCHANGED u_response
    /\ u_pc' = [u_pc EXCEPT ![u] = "done"]
    /\ UNCHANGED <<u_name, u_read>>
    /\ UNCHANGED <<chunkVars, variant, response, persistVars, queryVars, buildVars>>

UploadNext ==
    \/ \E u \in Uploads : UploadStart(u)
    \/ \E u \in Uploads : UploadSave(u)
    \/ \E u \in Uploads : UploadExtract(u)
    \/ \E u \in Uploads : UploadPipeline(u)
    \/ \E u \in Uploads : UploadCleanupCheck(u)
    \/ \E u \in Uploads : UploadRemove(u)

SpecUpload == UploadInit /\ [][UploadNext]_vars

(***************************************************************************)
(* Upload claims.                                                          *)
(***************************************************************************)
\* C14: once an upload request has completed, on whatever path (a refused
\* request, a success, a failed save, extraction, build or generation), no file
\* holding the bytes that request saved is left in the uploads folder.
C14_TemporaryFileGoneWhenRequestCompletes ==
    \A u \in Uploads :
        u_pc[u] = "done" => \A n \in FileNames : uploads[n] # u

\* A request that saved its file and then failed has completed, while another
\* request that saved under the same name is still running
C14_Witness ==
    \E u, v \in Uploads :
        /\ u # v
        /\ u_pc[u] = "done"
        /\ u_read[u] = u
        /\ u_response[u].status = 500
        /\ u_name[v] = u_name[u]
        /\ u_pc[v] = "pipeline"

\* C19 as stated: upload requests are isolated under interleaving, also two that
\* upload under the same sanitized file name: the ingestion of each request reads
\* exactly the bytes that request uploaded, and no request deletes or replaces a
\* temporary file that another request in flight is still to read.
C19_UploadsIsolatedUnderInterleaving ==
    \A u \in Uploads :
        /\ u_read[u] \in {0, u}
        /\ ~u_lost[u]

\* C15 as stated: the persistent knowledge base is loaded exactly once, at the
\* start of the server process, and only read afterwards: every query request,
\* in any order and interleaving, has the pipeline read the index and the chunk
\* sequence loaded at start-up, the same for all requests.
C15_LoadedOnceAtStartupAndReadOnly ==
    /\ loads <= 1
    /\ \A r \in Requests :
          Served(r) =>
              /\ p_pc = "loaded"
              /\ r_index[r] = prebuilt_index
              /\ r_chunks[r] = prebuilt_chunks
    /\ \A r, s \in Requests :
          (Served(r) /\ Served(s)) => (r_index[r] = r_index[s] /\ r_chunks[r] = r_chunks[s])

\* C20 as stated: a load of the persisted files made while a rebuild is running,
\* or after a rebuild stopped between the write of the embeddings file and the
\* write of the chunks file, never pairs the embeddings of one build with the
\* chunks of another: what is loaded comes from one completed build.
C20_LoadedPairComesFromOneBuild ==
    /\ p_pc = "loaded" => prebuilt_index.build = prebuilt_chunks.build
    /\ \A r \in Requests : Served(r) => r_index[r].build = r_chunks[r].build

(***************************************************************************)
(* chunk_text on every configuration, chunk_overlap >= chunk_size included. *)
(* With such a configuration the loop does not end: the model follows it   *)
(* for MaxTextLen + 1 iterations, more than any call with                  *)
(* chunk_overlap < chunk_size makes on these texts.                        *)
(***************************************************************************)
ChunkAnyInit ==
    /\ \E in \in ChunkInputs :
          /\ text = in[1]
          /\ chunk_size = in[2]
          /\ chunk_overlap = in[3]
    /\ c_pc = "call"
    /\ start = 0
    /\ chunks = <<>>
    /\ variant = "backend"
    /\ QueryIdle
    /\ BuildIdle
    /\ AppIdle

ChunkIterateFollowed ==
    /\ Len(chunks) <= MaxTextLen
    /\ ChunkIterate

ChunkAnyNext == ChunkShort \/ ChunkEnter \/ ChunkIterateFollowed \/ ChunkReturn

\* the call runs on: nothing suspends the loop of chunk_text
SpecChunkAny == ChunkAnyInit /\ [][ChunkAnyNext]_vars /\ WF_vars(ChunkAnyNext)

\* C16 as stated: chunk_text terminates on every input with overlap < size, and a
\* configuration with overlap >= size is rejected at once with a configuration
\* error: the call neither enters the loop nor returns chunks.
C16_TerminatesAndRejectsBadOverlap ==
    /\ (chunk_overlap < chunk_size) ~> (c_pc = "done")
    /\ [](chunk_overlap >= chunk_size => c_pc \in {"call", "rejected"})

(***************************************************************************)
(* Coverage of the text by its chunks.                                     *)
(***************************************************************************)
\* The chunks (by number, from 1) that cover position p of the text when chunk i
\* is written back at offset (i - 1) * step
Covering(p, step) ==
    {i \in 1..Len(chunks) : (i - 1) * step < p /\ p <= (i - 1) * step + Len(chunks[i])}

\* The text obtained by writing the chunks back in order, each at its offset
WrittenBack(step) ==
    LET extent == Max(0, (Len(chunks) - 1) * step + Len(chunks[Len(chunks)]))
        last(p) == CHOOSE i \in Covering(p, step) : \A j \in Covering(p, step) : j <= i
    IN  [p \in 1..extent |-> IF Covering(p, step) = {} THEN "gap"
                             ELSE chunks[last(p)][p - (last(p) - 1) * step]]

\* C17: for a text of length L > size and 0 <= overlap < size the chunks cover the
\* text without gaps: of two adjacent chunks, the suffix of the first from relative
\* offset size - overlap equals the prefix of the second of the same length, both
\* being text[(i+1)*step : min(i*step + size, L)]; and writing every chunk back at
\* its offset i * (size - overlap) reproduces the text.
C17_ChunksCoverTextWithoutGaps ==
    (c_pc = "done" /\ Len(text) > chunk_size) =>
        LET step == chunk_size - chunk_overlap
            L == Len(text)
        IN  /\ \A i \in 1..(Len(chunks) - 1) :
                  LET suffix == PySlice(chunks[i], step, Len(chunks[i]))
                      prefix == PySlice(chunks[i + 1], 0, Len(suffix))
                  IN  /\ suffix = prefix
                      /\ suffix = PySlice(text, i * step, Min((i - 1) * step + chunk_size, L))
                      /\ Len(prefix) = Len(suffix)
            /\ \A p \in 1..L : Covering(p, step) # {}
            /\ WrittenBack(step) = text

\* A finished call whose adjacent chunks share a region in which the text varies
C17_Witness ==
    /\ c_pc = "done"
    /\ Len(text) > chunk_size
    /\ chunk_overlap >= 2
    /\ Len(chunks) >= 3
    /\ PySlice(chunks[1], chunk_size - chunk_overlap, chunk_size) = <<"a", "b">>
    /\ Len(chunks[Len(chunks)]) < chunk_overlap

(***************************************************************************)
(* The form of an expansion line.                                          *)
(***************************************************************************)
Digits == {"0", "1", "2", "3", "4", "5", "6", "7", "8", "9"}

\* The line is a number, a period, a space and a text
IsNumberedLine(line) ==
    LET i == Find(line, DotSpace)
    IN  /\ i > 1
        /\ \A j \in 1..(i - 1) : line[j] \in Digits
        /\ Len(line) >= i + 2

\* The texts of the lines of the form "<n>. <text>", in order
RECURSIVE NumberedQuestions(_)
NumberedQuestions(lines) ==
    IF lines = <<>>
    THEN <<>>
    ELSE LET line == Strip(Head(lines))
         IN  (IF IsNumberedLine(line)
              THEN <<SubSeq(line, Find(line, DotSpace) + 2, Len(line))>>
              ELSE <<>>) \o NumberedQuestions(Tail(lines))

\* C18 as stated: the expander takes a line of the response as a question only if
\* it has the form "<n>. <text>" and returns exactly the <text> part; every other
\* line, a prose line that merely contains ". " included, is dropped and adds no
\* expansion query.
C18_OnlyNumberedLinesAreQuestions ==
    expansion.kind = "text" =>
        generated_questions = NumberedQuestions(Split(Strip(expansion.text), <<"\n">>))

====
